---- MODULE Spec2Model ----
(***************************************************************************)
(* A model of the genetic-algorithm engine of comparison-GA:               *)
(*   representation.py  - encoding tables (bitstring <-> number)           *)
(*   chromosome.py      - Chromosome, genetic operators, selection         *)
(*   optimizationGA.py  - GA_SEARCH, the evolution loop                    *)
(*                                                                         *)
(* Numbers.  Intervals are triples of integers; quotients such as          *)
(* (end - start)/step are handled as exact fractions n/d.  Floating-point  *)
(* representation error of the source's arithmetic is not modelled.        *)
(* Probabilities (rates and the values of random.uniform(0,1)) are         *)
(* multiples of 1/Scale: a rate is k/Scale with k in 0..Scale, a draw is   *)
(* k/Scale with k in 0..Scale-1, since random.uniform(0,1) is              *)
(* 0 + 1*random.random(), which lies in [0,1).                             *)
(*                                                                         *)
(* Objects.  Chromosome defines neither __eq__ nor __hash__, so Python     *)
(* compares and hashes its instances by identity.  A chromosome is the     *)
(* record [id, vec]: id is the identity of the instance, vec its           *)
(* bitstring _vec (a sequence of 0/1).  Identities are only ever compared  *)
(* for equality, so at the end of a generation every live instance is      *)
(* renamed to the position of its first occurrence in POP.                 *)
(***************************************************************************)
EXTENDS Integers, Sequences, FiniteSets, TLC

VARIABLES
    pc,           \* position in GA_SEARCH: "start", "while", "pair", "replace", "done"; "idle" outside a run
    mutrate,      \* GA_SEARCH parameter, in units of 1/Scale
    crossrate,    \* GA_SEARCH parameter, in units of 1/Scale
    popsize,      \* GA_SEARCH parameter
    key,          \* GA_SEARCH parameter: "min" or "max"
    EVAL_LIMIT,   \* the evaluation budget
    EVALS,        \* the evaluation counter
    POP,          \* list of chromosomes
    FITNESS_MAP,  \* dict: chromosome instance -> raw fitness
    f_prime,      \* scaling window value
    best,         \* running best fitness
    child_POP,    \* children of the generation under construction
    new_children, \* the same children, kept for the log
    i,            \* index of the reproduction for-loop
    parents,      \* <<parent1, parent2>> of the current iteration; <<>> outside the
                  \* reproduction loop, where the two names are not read
    lines,        \* number of lines written to the run log (exact up to EVAL_LIMIT + 1)
    interval,     \* encoding run: the interval (start, end, step)
    bwidth,       \* encoding run: result of numBitsToEncodeInterval
    table,        \* encoding run: result of generateBinaryRepresentation
    call,         \* encoding / operator run: the last call and its result
    opPop,        \* operator run: a population
    opFmap,       \* operator run: its fitness map
    opRate        \* operator run: a mutation rate

vars == <<pc, mutrate, crossrate, popsize, key, EVAL_LIMIT, EVALS, POP, FITNESS_MAP,
          f_prime, best, child_POP, new_children, i, parents, lines,
          interval, bwidth, table, call, opPop, opFmap, opRate>>

gaVars == <<pc, mutrate, crossrate, popsize, key, EVAL_LIMIT, EVALS, POP, FITNESS_MAP,
            f_prime, best, child_POP, new_children, i, parents, lines>>

encVars == <<interval, bwidth, table>>

opVars == <<opPop, opFmap, opRate>>

(***************************************************************************)
(* Bounds of the model.                                                    *)
(***************************************************************************)
\* probabilities are multiples of 1/Scale
Scale == 2
\* the evaluation budget ranges over 1..MaxBudget
MaxBudget == 5
\* interval end points range over -MaxCoord..MaxCoord
MaxCoord == 3
\* interval steps range over -MaxStep..MaxStep
MaxStep == 2
\* raw fitness values of the operator runs range over 0..MaxFit
MaxFit == 2
\* populations and bitstrings of the operator runs have at most MaxLen elements
MaxLen == 3

\* math.inf
Infinity == 1000

Rates == 0..Scale
Draws == 0..(Scale - 1)

\* the population sizes of the runs: two chromosomes, one pair of parents a generation
PopSizes == {2}

(***************************************************************************)
(* Arithmetic helpers.                                                     *)
(***************************************************************************)
Abs(x) == IF x < 0 THEN -x ELSE x

Pow2(n) == 2 ^ n

MinOf(S) == CHOOSE x \in S : \A y \in S : x <= y

MaxOf(S) == CHOOSE x \in S : \A y \in S : x >= y

\* int(a/b): true division, then truncation toward zero
TruncDiv(a, b) == IF (a >= 0) = (b > 0) THEN Abs(a) \div Abs(b) ELSE -(Abs(a) \div Abs(b))

\* round(n/d) for n >= 0, d > 0: Python rounds halves to the even neighbour
RoundHalfEven(n, d) ==
    LET q == n \div d
        r == n % d
    IN  IF 2 * r < d THEN q
        ELSE IF 2 * r > d THEN q + 1
        ELSE IF q % 2 = 0 THEN q ELSE q + 1

\* math.ceil(math.log(n/d, 2)) for n, d > 0
CeilLog2(n, d) ==
    IF n > d
    THEN CHOOSE b \in 1..n : Pow2(b) * d >= n /\ Pow2(b - 1) * d < n
    ELSE -(CHOOSE m \in 0..d : n * Pow2(m) <= d /\ n * Pow2(m + 1) > d)

RECURSIVE SumSeq(_)
SumSeq(s) == IF s = <<>> THEN 0 ELSE Head(s) + SumSeq(Tail(s))

(***************************************************************************)
(* representation.py                                                       *)
(* A call returns [err, val]: err is "none" or the exception raised.       *)
(***************************************************************************)
Ok(v) == [err |-> "none", val |-> v]

Raise(e, v) == [err |-> e, val |-> v]

\* isValidInterval; intervals are always 3-tuples here
isValidInterval(iv) ==
    (iv[1] < iv[2] /\ iv[3] > 0) \/ (iv[1] > iv[2] /\ iv[3] < 0)

\* numBitsToEncodeInterval
numBitsToEncodeInterval(iv) ==
    IF ~isValidInterval(iv) THEN Raise("ValueError", 0)
    ELSE Ok(CeilLog2(Abs(iv[2] - iv[1]), Abs(iv[3])))

\* bin(n)[2:] as a sequence of bits
RECURSIVE BinDigits(_)
BinDigits(n) == IF n < 2 THEN <<n>> ELSE BinDigits(n \div 2) \o <<n % 2>>

\* '0'*(b-len(binstr)) + binstr ; a non-positive repeat count gives ''
PadBin(n, b) ==
    LET d == BinDigits(n)
    IN  [k \in 1..(IF b > Len(d) THEN b - Len(d) ELSE 0) |-> 0] \o d

\* the list bc of generateBinaryRepresentation, for b >= 0
BinaryCode(b) == [k \in 1..Pow2(b) |-> PadBin(k - 1, b)]

\* the loop of initializeEncodings: the k-th bitstring gets (int(start/step) + k - 1) * step;
\* a bitstring listed twice keeps its last value
EncodingLoop(encoding, iv) ==
    LET j == TruncDiv(iv[1], iv[3])
        last(s) == MaxOf({k \in DOMAIN encoding : encoding[k] = s})
    IN  [s \in {encoding[k] : k \in DOMAIN encoding} |-> (j + last(s) - 1) * iv[3]]

\* initializeEncodings with its assertion not executed
initializeEncodingsUnchecked(encoding, iv) ==
    IF ~isValidInterval(iv) THEN Raise("ValueError", <<>>)
    ELSE Ok(EncodingLoop(encoding, iv))

\* initializeEncodings
initializeEncodings(encoding, iv) ==
    IF ~isValidInterval(iv) THEN Raise("ValueError", <<>>)
    ELSE IF Len(encoding) # RoundHalfEven(Abs(iv[2] - iv[1]) + Abs(iv[3]), Abs(iv[3]))
         THEN Raise("AssertionError", <<>>)
         ELSE Ok(EncodingLoop(encoding, iv))

\* Representation.__init__ ; the values of repFn are pairwise distinct whenever the
\* bitstrings are (step # 0), so the inverse dict has one bitstring per number
Representation(repFn, name) ==
    [rep |-> repFn,
     invRep |-> [x \in {repFn[s] : s \in DOMAIN repFn} |->
                    CHOOSE s \in DOMAIN repFn : repFn[s] = x],
     name |-> name]

\* Representation.to_num
to_num(R, bitstr) ==
    IF bitstr \in DOMAIN R.rep THEN Ok(R.rep[bitstr]) ELSE Raise("KeyError", 0)

\* Representation.to_bitstr
to_bitstr(R, num) ==
    IF num \in DOMAIN R.invRep THEN Ok(R.invRep[num]) ELSE Raise("KeyError", <<>>)

\* Representation.num_bits
num_bits(R) == Len(CHOOSE s \in DOMAIN R.rep : \A t \in DOMAIN R.rep : Len(t) = Len(s))

NoRepresentation == [rep |-> <<>>, invRep |-> <<>>, name |-> "none"]

\* generateBinaryRepresentation(interval) with b = None; range(0, 2**b) raises
\* TypeError for b < 0, where 2**b is a float
generateBinaryRepresentation(iv) ==
    LET nb == numBitsToEncodeInterval(iv)
    IN  IF nb.err # "none" THEN Raise(nb.err, NoRepresentation)
        ELSE IF nb.val < 0 THEN Raise("TypeError", NoRepresentation)
        ELSE LET binRep == initializeEncodings(BinaryCode(nb.val), iv)
             IN  IF binRep.err # "none" THEN Raise(binRep.err, NoRepresentation)
                 ELSE Ok(Representation(binRep.val, "binary"))

(***************************************************************************)
(* chromosome.py                                                           *)
(***************************************************************************)
\* Chromosome.__init__ from a bitstring; id is the identity of the new instance
Chromosome(id, vector) == [id |-> id, vec |-> vector]

\* c1 == c2: Chromosome defines no __eq__, so this is object.__eq__ (identity)
ChromEq(c1, c2) == c1.id = c2.id

\* c in lst, for a list of chromosomes
InList(c, lst) == \E k \in DOMAIN lst : ChromEq(lst[k], c)

\* Chromosome.to_real_vec: the segments vec[i:i+b] for i in range(0, len(vec), b)
to_real_vec(c, R) ==
    LET b == num_bits(R)
        n == (Len(c.vec) + b - 1) \div b
        min(x, y) == IF x < y THEN x ELSE y
    IN  [k \in 1..n |-> R.rep[SubSeq(c.vec, (k - 1) * b + 1, min(k * b, Len(c.vec)))]]

\* the objective: testFunctions.f1, sum of x_i**2, here in fn.n dimensions
fn == [name |-> "Parabola", n |-> 1]

\* TestFn.eval for the Parabola
FnEval(vector) == SumSeq([k \in DOMAIN vector |-> vector[k] * vector[k]])

\* Chromosome.eval_fitness
eval_fitness(c, R) == FnEval(to_real_vec(c, R))

\* the tails sliced one position too far
crossoverTailShifted(p1, p2, point) ==
    LET L == Len(p1)
    IN  << SubSeq(p1, 1, point) \o SubSeq(p2, point + 2, L),
           SubSeq(p2, 1, point) \o SubSeq(p1, point + 2, L) >>

\* Chromosome.crossover with the cut point drawn by random.randint(0, len(p1)):
\* the bitstrings of the two children
crossover(p1, p2, point) ==
    LET L == Len(p1)
    IN  << SubSeq(p1, 1, point) \o SubSeq(p2, point + 1, L),
           SubSeq(p2, 1, point) \o SubSeq(p1, point + 1, L) >>

\* the per-bit test of Chromosome.mutate: random.uniform(0,1) <= pm
flips(u, pm) == u <= pm

\* Chromosome.mutate: draws[k] is the value random.uniform(0,1) returned for bit k;
\* the bitstring of the new chromosome
mutate(vec, pm, draws) ==
    [k \in 1..Len(vec) |-> IF flips(draws[k], pm) THEN 1 - vec[k] ELSE vec[k]]

\* Chromosome.performance_value
performance_value(c, fmap, fp, k) ==
    IF k = "min" THEN fp - fmap[c] ELSE fmap[c] - fp

\* the draw that ignores the weights
wheel_selectionUniform(pop, fmap, fp, k) ==
    {<<pop[a], pop[b]>> : a \in DOMAIN pop, b \in DOMAIN pop}

\* wheel_selection: the pairs numpy.random.choice can return.  With s == 0 the
\* draw is uniform; otherwise position a has probability w[a]/s
wheel_selection(pop, fmap, fp, k) ==
    LET w == [a \in DOMAIN pop |-> performance_value(pop[a], fmap, fp, k)]
        s == SumSeq(w)
        can == IF s = 0 THEN DOMAIN pop ELSE {a \in DOMAIN pop : w[a] > 0}
    IN  {<<pop[a], pop[b]>> : a \in can, b \in can}

\* key(x, y) for key in {min, max}
KeyOf(k, x, y) == IF k = "min" THEN (IF y < x THEN y ELSE x) ELSE (IF y > x THEN y ELSE x)

\* the sampling loop of tournament_selection: picks[n] is the n-th value of
\* random.randint(0, len(popcopy)-1), 0-based
RECURSIVE Sample(_, _)
Sample(popcopy, picks) ==
    IF picks = <<>> THEN <<>>
    ELSE LET ind == Head(picks) + 1
         IN  <<popcopy[ind]>> \o
             Sample(SubSeq(popcopy, 1, ind - 1) \o SubSeq(popcopy, ind + 1, Len(popcopy)),
                    Tail(picks))

\* the comparison with ties left to the earlier chromosome
BeatsStrictly(k, david, goliath) == david # goliath /\ KeyOf(k, david, goliath) = david

\* the comparison of tournament_selection: key(david, goliath) == david
Beats(k, david, goliath) == KeyOf(k, david, goliath) = david

\* the scan of tournament_selection over ksubset[1..n], most_fit starting at ksubset[0]
RECURSIVE Scan(_, _, _, _)
Scan(ksubset, n, fmap, k) ==
    IF n = 0 THEN ksubset[1]
    ELSE LET most_fit == Scan(ksubset, n - 1, fmap, k)
         IN  IF Beats(k, fmap[ksubset[n]], fmap[most_fit]) THEN ksubset[n] ELSE most_fit

NoChromosome == Chromosome(0, <<>>)

\* tournament_selection(pop, k, fmap, key), picks being the k values of random.randint
tournament_selection(pop, k, picks, fmap, kf) ==
    IF ~(0 < k /\ k <= Len(pop)) THEN Raise("AssertionError", NoChromosome)
    ELSE LET ksubset == Sample(pop, picks)
         IN  Ok(Scan(ksubset, Len(ksubset), fmap, kf))

(***************************************************************************)
(* optimizationGA.py: GA_SEARCH                                            *)
(***************************************************************************)
\* the interval argument of the run: four points, two bits
GAInterval == <<-2, 1, 1>>

\* REP = rep(interval) with rep = generateBinaryRepresentation
REP == generateBinaryRepresentation(GAInterval).val

\* list(REP._rep): what REP.get_random_bitstr chooses from
Bitstrings == DOMAIN REP.rep

\* vec after the inner loop of the initialisation: dim random bitstrings, concatenated
RECURSIVE Concat(_)
Concat(ss) == IF ss = <<>> THEN <<>> ELSE Head(ss) \o Concat(Tail(ss))

RandomVecs == {Concat(ss) : ss \in [1..fn.n -> Bitstrings]}

\* instances renamed to the position of their first occurrence in the list all
Rename(c, all) ==
    Chromosome(MinOf({m \in DOMAIN all : all[m].id = c.id}), c.vec)

RenameAll(lst, all) == [k \in DOMAIN lst |-> Rename(lst[k], all)]

\* an identity no instance of the list has
FreshId(all) == 1 + MaxOf({0} \cup {all[m].id : m \in DOMAIN all})

\* {chrom: chrom.eval_fitness(fn) for chrom in POP}
FitnessMap(pop) == [c \in {pop[k] : k \in DOMAIN pop} |-> eval_fitness(c, REP)]

\* the window taken at the wrong end
ScalingWindowSwapped(fmap, k) ==
    LET values == {fmap[c] : c \in DOMAIN fmap}
    IN  IF k = "min" THEN MinOf(values) ELSE MaxOf(values)

\* max(FITNESS_MAP.values()) when minimising, min(...) when maximising
ScalingWindow(fmap, k) ==
    LET values == {fmap[c] : c \in DOMAIN fmap}
    IN  IF k = "min" THEN MaxOf(values) ELSE MinOf(values)

\* key(FITNESS_MAP.values())
BestValue(fmap, k) ==
    LET values == {fmap[c] : c \in DOMAIN fmap}
    IN  IF k = "min" THEN MinOf(values) ELSE MaxOf(values)

\* key(FITNESS_MAP, key = FITNESS_MAP.get): the first key, in insertion order (the
\* order of first occurrence in the population), whose value is the best
BestChrom(pop, fmap, k) ==
    pop[MinOf({a \in DOMAIN pop : fmap[pop[a]] = BestValue(fmap, k)})]

\* the replacement without its append
ElitistReplacementDropped(children, best_chrom) == children

\* elitist replacement: if best_chrom not in child_POP: child_POP.append(best_chrom)
ElitistReplacement(children, best_chrom) ==
    IF ~InList(best_chrom, children) THEN Append(children, best_chrom) ELSE children

\* one iteration too many
NumPairsOffByOne(n) == n \div 2 + 1

\* range(popsize//2)
NumPairs(n) == n \div 2

\* one count for each parent the child differs from
IsNewPerParent(child, parent1, parent2) ==
    (IF ~ChromEq(child, parent1) THEN 1 ELSE 0) + (IF ~ChromEq(child, parent2) THEN 1 ELSE 0)

\* int(child != parent1 and child != parent2)
IsNew(child, parent1, parent2) ==
    IF ~ChromEq(child, parent1) /\ ~ChromEq(child, parent2) THEN 1 ELSE 0

\* the log is counted exactly up to one line past the budget
Logged(n, limit) == IF n > limit THEN limit + 1 ELSE n

\* lines written by "for new in new_children: f.write(...); if EVALS == EVAL_LIMIT: break"
GenerationLines(children, evals, limit) ==
    IF children = <<>> THEN 0 ELSE IF evals = limit THEN 1 ELSE Len(children)

Idle == "idle"

Pending(v) == Raise("pending", v)

EncIdle ==
    interval = <<0, 0, 0>> /\ bwidth = Pending(0) /\ table = Pending(NoRepresentation)

GAIdle ==
    /\ pc = Idle /\ mutrate = 0 /\ crossrate = 0 /\ popsize = 0 /\ key = "min"
    /\ EVAL_LIMIT = 0 /\ EVALS = 0 /\ POP = <<>> /\ FITNESS_MAP = <<>> /\ f_prime = 0
    /\ best = 0 /\ child_POP = <<>> /\ new_children = <<>> /\ i = 0 /\ lines = 0
    /\ parents = <<>>

OpIdle == opPop = <<>> /\ opFmap = <<>> /\ opRate = 0

CallIdle == call = [op |-> "none"]

\* GA_SEARCH entered, its four assertions passed
Init ==
    /\ pc = "start"
    /\ mutrate \in Rates
    /\ crossrate \in Rates
    /\ popsize \in PopSizes
    /\ key \in {"min", "max"}
    /\ EVAL_LIMIT \in 1..MaxBudget
    /\ EVALS = 0
    /\ POP = <<>>
    /\ FITNESS_MAP = <<>>
    /\ f_prime = 0
    /\ best = 0
    /\ child_POP = <<>>
    /\ new_children = <<>>
    /\ i = 0
    /\ parents = <<>>
    /\ lines = 0
    /\ EncIdle /\ OpIdle /\ CallIdle

\* lines 47-84: random population, fitness map, scaling window, first log lines
Initialize ==
    /\ pc = "start"
    /\ \E vecs \in [1..popsize -> RandomVecs] :
         LET pop == [k \in 1..popsize |-> Chromosome(k, vecs[k])]
             fmap == FitnessMap(pop)
         IN  /\ POP' = pop
             /\ FITNESS_MAP' = fmap
             /\ f_prime' = ScalingWindow(fmap, key)
    /\ best' = IF key = "min" THEN Infinity ELSE -Infinity
    /\ EVALS' = popsize
    /\ lines' = Logged(popsize, EVAL_LIMIT)
    /\ pc' = "while"
    /\ UNCHANGED <<mutrate, crossrate, popsize, key, EVAL_LIMIT, child_POP, new_children,
                   i, parents>>
    /\ UNCHANGED <<encVars, call, opVars>>

\* line 88 true, lines 89-91: a generation starts
StartGeneration ==
    /\ pc = "while"
    /\ EVALS < EVAL_LIMIT
    /\ child_POP' = <<>>
    /\ new_children' = <<>>
    /\ i' = 0
    /\ pc' = IF NumPairs(popsize) > 0 THEN "pair" ELSE "replace"
    /\ UNCHANGED <<mutrate, crossrate, popsize, key, EVAL_LIMIT, EVALS, POP, FITNESS_MAP,
                   f_prime, best, lines, parents>>
    /\ UNCHANGED <<encVars, call, opVars>>

\* the outcomes of "random.uniform(0,1) < rate"
Gate(rate) == {u < rate : u \in Draws}

\* lines 95-103 for one pair of parents: the pairs <<child1, child2>> the draws can
\* produce; new instances take identities from n0 on
Offspring(parent1, parent2, n0) ==
    LET L == Len(parent1.vec)
        crossedPairs ==
            {<<Chromosome(n0, crossover(parent1.vec, parent2.vec, point)[1]),
               Chromosome(n0 + 1, crossover(parent1.vec, parent2.vec, point)[2])>> :
                 point \in 0..L}
        afterCross ==
            UNION {IF crossed THEN crossedPairs ELSE {<<parent1, parent2>>} :
                     crossed \in Gate(crossrate)}
        mutants(c, id) ==
            UNION {IF gate
                   THEN {Chromosome(id, mutate(c.vec, mutrate, d)) : d \in [1..L -> Draws]}
                   ELSE {c} : gate \in Gate(mutrate)}
    IN  UNION {mutants(cc[1], n0 + 2) \X mutants(cc[2], n0 + 3) : cc \in afterCross}

\* lines 93-112: one iteration of the reproduction loop
Reproduce ==
    /\ pc = "pair"
    /\ \E outcome \in
            UNION {{<<kids, IsNew(kids[1], pp[1], pp[2]) + IsNew(kids[2], pp[1], pp[2]), pp>> :
                      kids \in Offspring(pp[1], pp[2], FreshId(POP \o child_POP))} :
                   pp \in wheel_selection(POP, FITNESS_MAP, f_prime, key)} :
         LET children == child_POP \o outcome[1]
         IN  /\ EVALS' = EVALS + outcome[2]
             /\ child_POP' = RenameAll(children, POP \o children)
             /\ new_children' = RenameAll(children, POP \o children)
             /\ parents' = outcome[3]
    /\ i' = i + 1
    /\ pc' = IF i + 1 < NumPairs(popsize) THEN "pair" ELSE "replace"
    /\ UNCHANGED <<mutrate, crossrate, popsize, key, EVAL_LIMIT, POP, FITNESS_MAP,
                   f_prime, best, lines>>
    /\ UNCHANGED <<encVars, call, opVars>>

\* lines 114-142: elitist replacement, new fitness map and window, log, running best;
\* the first conjunct of the LET body is the assertion of line 121
Replace ==
    /\ pc = "replace"
    /\ LET best_chrom == BestChrom(POP, FITNESS_MAP, key)
           grown == ElitistReplacement(child_POP, best_chrom)
           pop == RenameAll(grown, grown)
           fmap == FitnessMap(pop)
       IN  /\ Len(grown) = popsize \/ Len(grown) = popsize + 1
           /\ POP' = pop
           /\ child_POP' = pop
           /\ new_children' = SubSeq(pop, 1, Len(new_children))
           /\ FITNESS_MAP' = fmap
           /\ f_prime' = ScalingWindow(fmap, key)
           /\ best' = KeyOf(key, best, BestValue(fmap, key))
    /\ lines' = Logged(lines + GenerationLines(new_children, EVALS, EVAL_LIMIT), EVAL_LIMIT)
    /\ parents' = <<>>
    /\ pc' = "while"
    /\ UNCHANGED <<mutrate, crossrate, popsize, key, EVAL_LIMIT, EVALS, i>>
    /\ UNCHANGED <<encVars, call, opVars>>

\* line 88 false, line 144
Terminate ==
    /\ pc = "while"
    /\ ~(EVALS < EVAL_LIMIT)
    /\ pc' = "done"
    /\ UNCHANGED <<mutrate, crossrate, popsize, key, EVAL_LIMIT, EVALS, POP, FITNESS_MAP,
                   f_prime, best, child_POP, new_children, i, lines, parents>>
    /\ UNCHANGED <<encVars, call, opVars>>

Next == Initialize \/ StartGeneration \/ Reproduce \/ Replace \/ Terminate

Spec == Init /\ [][Next]_vars

\* the runs whose two rates are end points of [0,1]
FairInit == Init /\ mutrate \in {0, Scale} /\ crossrate \in {0, Scale}

\* every run keeps running, and a random draw that can produce an outcome again and
\* again eventually produces it
FairSpec ==
    /\ FairInit /\ [][Next]_vars
    /\ WF_vars(Next)
    /\ SF_vars(Reproduce /\ EVALS' > EVALS)

(***************************************************************************)
(* Properties of GA_SEARCH.                                                *)
(***************************************************************************)
Running == pc \in {"while", "pair", "replace", "done"}

\* the chromosome instances the run holds
Instances == {POP[k] : k \in DOMAIN POP} \cup {child_POP[k] : k \in DOMAIN child_POP}

\* C1: the number of fitness values written to the run log, the initial
\* population's lines and every generation's lines together, never exceeds the
\* evaluation budget.
C1_LogWithinBudget == lines <= EVAL_LIMIT

\* C2: the individual with the best raw fitness in a generation's fitness map is
\* present, by bitstring, in the population of the next generation.
C2_ElitePreserved ==
    [][pc = "replace" =>
          \E k \in DOMAIN POP' : POP'[k].vec = BestChrom(POP, FITNESS_MAP, key).vec]_vars

\* a generation whose children all differ, as bitstrings, from the elite that was appended
C2_Witness ==
    /\ pc = "while"
    /\ Len(POP) = popsize + 1
    /\ \A k \in 1..popsize : POP[k].vec # POP[popsize + 1].vec

\* C3: after the elitist replacement of every generation the population holds
\* popsize or popsize + 1 chromosomes, and the size assertion of the loop never fails.
C3_PopSize ==
    /\ Running => Len(POP) = popsize \/ Len(POP) = popsize + 1
    /\ pc = "replace" =>
         LET grown == ElitistReplacement(child_POP, BestChrom(POP, FITNESS_MAP, key))
         IN  Len(grown) = popsize \/ Len(grown) = popsize + 1

\* a replacement about to happen on a population that had grown by the elite
C3_Witness ==
    /\ pc = "replace"
    /\ Len(POP) = popsize + 1
    /\ Len(ElitistReplacement(child_POP, BestChrom(POP, FITNESS_MAP, key))) = popsize

\* C4: two chromosomes compare equal if and only if their bitstrings are equal, and
\* instances with the same bitstring are one key of the fitness map.
C4_EqualIffSameBits ==
    /\ \A c1 \in Instances : \A c2 \in Instances : ChromEq(c1, c2) <=> c1.vec = c2.vec
    /\ Cardinality(DOMAIN FITNESS_MAP) = Cardinality({c.vec : c \in DOMAIN FITNESS_MAP})

\* C5: every run eventually leaves the evolve loop and terminates.
C5_Terminates == <>(pc = "done")

\* the selection weight of an instance of the current population
Weight(c) == performance_value(c, FITNESS_MAP, f_prime, key)

\* no instance of the population has a raw fitness worse than c's
IsWorst(c) ==
    \A k \in DOMAIN POP :
        IF key = "min" THEN FITNESS_MAP[POP[k]] <= FITNESS_MAP[c]
        ELSE FITNESS_MAP[POP[k]] >= FITNESS_MAP[c]

\* C9 as stated: one worst individual has weight 0 and every other individual of
\* the population has a strictly positive weight.
C9_OnlyWorstIsZero ==
    Running =>
        \E k \in DOMAIN POP :
            /\ Weight(POP[k]) = 0
            /\ \A m \in DOMAIN POP : ~ChromEq(POP[m], POP[k]) => Weight(POP[m]) > 0

\* C9 (amended): every individual whose raw fitness is the worst of the population
\* has weight 0, there is at least one, and every individual with a better raw
\* fitness has a strictly positive weight.
C9_WorstZeroBetterPositive ==
    Running =>
        /\ \E k \in DOMAIN POP : Weight(POP[k]) = 0
        /\ \A k \in DOMAIN POP :
              IF IsWorst(POP[k]) THEN Weight(POP[k]) = 0 ELSE Weight(POP[k]) > 0

\* two instances tie for the worst fitness and a third is better
C9_Witness ==
    /\ pc = "pair"
    /\ \E a \in DOMAIN POP, b \in DOMAIN POP, c \in DOMAIN POP :
          /\ ~ChromEq(POP[a], POP[b])
          /\ Weight(POP[a]) = 0 /\ Weight(POP[b]) = 0 /\ Weight(POP[c]) > 0

\* C12: in a reproduction step the evaluation counter grows by the number of the two
\* children whose bitstring differs from the bitstrings of both parents; a clone, a
\* crossover child that repeats a parent's bitstring and a mutant without a flipped
\* bit add nothing.
C12_CountsBitstringNovelty ==
    [][pc = "pair" =>
          LET n == Len(child_POP')
              novel == {k \in {n - 1, n} : /\ child_POP'[k].vec # parents'[1].vec
                                           /\ child_POP'[k].vec # parents'[2].vec}
          IN  EVALS' - EVALS = Cardinality(novel)]_vars

\* the b-length segments of a bitstring, the last one shorter when b does not divide
\* the length
Segments(vec, b) ==
    {SubSeq(vec, m, MinOf({m + b - 1, Len(vec)})) : m \in {n \in 1..Len(vec) : n % b = 1 % b}}

\* C13: after any sequence of initialisation, selection, crossover, mutation and
\* elitist replacement every chromosome of the population (and of the child
\* population being built) has a bitstring of exactly b * dim bits, and each of its
\* b-length segments is a key of the encoding table, so that decoding it succeeds.
C13_WellFormedBitstrings ==
    Running =>
        \A c \in Instances :
            /\ Len(c.vec) = num_bits(REP) * fn.n
            /\ \A seg \in Segments(c.vec, num_bits(REP)) : to_num(REP, seg).err = "none"

\* a reproduction that has produced a child whose bitstring neither parent has
C13_Witness ==
    /\ pc = "replace"
    /\ parents # <<>>
    /\ \E k \in DOMAIN child_POP : /\ child_POP[k].vec # parents[1].vec
                                   /\ child_POP[k].vec # parents[2].vec

\* the total performance weight of the current population
TotalWeight == SumSeq([a \in DOMAIN POP |-> Weight(POP[a])])

\* what a pair returned for the current population must satisfy
GoodPair(pr) ==
    /\ Len(pr) = 2
    /\ \A j \in 1..2 : InList(pr[j], POP)
    /\ TotalWeight > 0 => \A j \in 1..2 : Weight(pr[j]) # 0

\* C14: wheel_selection returns exactly two members of the given population; when
\* the total weight is positive a member of weight 0 is never returned, and when the
\* total weight is 0 every member of the population can be returned.  Stated for
\* the call about to be made and for the pair the last call returned.
C14_WheelSelection ==
    /\ pc = "pair" =>
          LET sel == wheel_selection(POP, FITNESS_MAP, f_prime, key)
          IN  /\ sel # {}
              /\ \A pr \in sel : GoodPair(pr)
              /\ TotalWeight = 0 =>
                    \A a \in DOMAIN POP : \E pr \in sel : \E j \in 1..2 : pr[j] = POP[a]
    /\ parents # <<>> => GoodPair(parents)

\* a pair drawn from a population that has a member of weight 0 and a member of
\* positive weight
C14_Witness ==
    /\ parents # <<>>
    /\ TotalWeight > 0
    /\ \E a \in DOMAIN POP : Weight(POP[a]) = 0

\* C15: at every point of a run the evaluation counter is below budget + popsize,
\* and at termination it lies in [budget, budget + popsize - 1] or equals popsize
\* (the initial population alone having reached the budget).
C15_CounterBound ==
    /\ Running => EVALS < EVAL_LIMIT + popsize
    /\ pc = "done" =>
          /\ EVALS >= EVAL_LIMIT
          /\ EVALS <= EVAL_LIMIT + popsize - 1 \/ EVALS = popsize

\* a run that ended after a generation took the counter to the last value allowed
C15_Witness ==
    /\ pc = "done"
    /\ EVALS > popsize
    /\ EVALS = EVAL_LIMIT + popsize - 1

(***************************************************************************)
(* Encoding runs: an interval is given, its bit width is computed, its     *)
(* binary table is built and queried.                                      *)
(***************************************************************************)
Intervals == (-MaxCoord..MaxCoord) \X (-MaxCoord..MaxCoord) \X (-MaxStep..MaxStep)

EncInit ==
    /\ interval \in Intervals
    /\ bwidth = Pending(0)
    /\ table = Pending(NoRepresentation)
    /\ GAIdle /\ OpIdle /\ CallIdle

\* b = numBitsToEncodeInterval(interval)
NumBits ==
    /\ bwidth = Pending(0)
    /\ bwidth' = numBitsToEncodeInterval(interval)
    /\ UNCHANGED <<interval, table, call, gaVars, opVars>>

\* generateBinaryRepresentation(interval)
GenerateBinary ==
    /\ table = Pending(NoRepresentation)
    /\ table' = generateBinaryRepresentation(interval)
    /\ UNCHANGED <<interval, bwidth, call, gaVars, opVars>>

\* REP.to_num(bitstr) for a key of the table or the empty string
Decode ==
    /\ table.err = "none"
    /\ \E bitstr \in DOMAIN table.val.rep \cup {<<>>} :
          call' = [op |-> "to_num", arg |-> bitstr, ret |-> to_num(table.val, bitstr)]
    /\ UNCHANGED <<encVars, gaVars, opVars>>

\* REP.to_bitstr(num)
Encode ==
    /\ table.err = "none"
    /\ \E num \in (-2 * MaxCoord)..(2 * MaxCoord) :
          call' = [op |-> "to_bitstr", arg |-> num, ret |-> to_bitstr(table.val, num)]
    /\ UNCHANGED <<encVars, gaVars, opVars>>

\* the bitstring lists supplied to initializeEncodings: the first n bitstrings of
\* width MaxLen, in binary count order
SuppliedLists == {SubSeq(BinaryCode(MaxLen), 1, n) : n \in 0..Pow2(MaxLen)}

\* initializeEncodings(encoding, interval) with a supplied list
InitEncodings ==
    /\ \E encoding \in SuppliedLists :
          call' = [op |-> "initializeEncodings", arg |-> encoding,
                   ret |-> initializeEncodings(encoding, interval)]
    /\ UNCHANGED <<encVars, gaVars, opVars>>

EncNext == NumBits \/ GenerateBinary \/ Decode \/ Encode \/ InitEncodings

EncSpec == EncInit /\ [][EncNext]_vars

\* round(|end - start| / step) + 1, the number of points of the discretized interval
NumPoints(iv) == RoundHalfEven(Abs(iv[2] - iv[1]), Abs(iv[3])) + 1

\* the points start + i*step
Points(iv) == {iv[1] + n * iv[3] : n \in 0..(NumPoints(iv) - 1)}

\* C7: for the binary table built for a valid interval, decode(encode(x)) = x for
\* every point x = start + i*step of the interval, encode being defined there, and
\* encode(decode(s)) = s for every bitstring s of the table's width.
C7_RoundTrip ==
    table.err = "none" =>
        /\ \A x \in Points(interval) :
              /\ to_bitstr(table.val, x).err = "none"
              /\ to_num(table.val, to_bitstr(table.val, x).val) = Ok(x)
        /\ \A k \in 1..Pow2(num_bits(table.val)) :
              LET s == PadBin(k - 1, num_bits(table.val))
              IN  /\ to_num(table.val, s).err = "none"
                  /\ to_bitstr(table.val, to_num(table.val, s).val) = Ok(s)

\* C8: the width b returned for a valid interval is the least one with
\* 2^b >= round(|end - start| / step) + 1.
C8_MinimalWidth ==
    bwidth.err = "none" =>
        /\ bwidth.val >= 0
        /\ Pow2(bwidth.val) >= NumPoints(interval)
        /\ bwidth.val > 0 => Pow2(bwidth.val - 1) < NumPoints(interval)

\* start == end, a zero step, or a step whose sign contradicts the direction
BadInterval(iv) ==
    \/ iv[1] = iv[2]
    \/ iv[3] = 0
    \/ iv[1] < iv[2] /\ iv[3] < 0
    \/ iv[1] > iv[2] /\ iv[3] > 0

\* the integer nearest to |end - start|/step + 1, the even one of two equally near
NearestToSizePlusOne(iv) ==
    LET n == Abs(iv[2] - iv[1])
        d == Abs(iv[3])
    IN  CHOOSE m \in 0..(n + d) :
            \/ 2 * Abs(m * d - (n + d)) < d
            \/ 2 * Abs(m * d - (n + d)) = d /\ m % 2 = 0

Built == call.op = "initializeEncodings"

\* C11 as stated: building a table fails, and produces no table, exactly when the
\* interval is bad or the supplied list's cardinality differs from
\* round(|end - start|/step) + 1.
C11_FailsIffBadOrMiscounted ==
    Built =>
        /\ call.ret.err # "none" <=>
              BadInterval(interval) \/ Len(call.arg) # NumPoints(interval)
        /\ call.ret.err # "none" => call.ret.val = <<>>

\* C11 (amended): building a table fails, and produces no table, exactly when the
\* interval is bad or the supplied list's cardinality differs from
\* round(|end - start|/step + 1), halves rounded to the even neighbour.
C11_FailsIffBadOrRoundedMiscount ==
    Built =>
        /\ call.ret.err # "none" <=>
              BadInterval(interval) \/ Len(call.arg) # NearestToSizePlusOne(interval)
        /\ call.ret.err # "none" => call.ret.val = <<>>
        /\ call.ret.err = "none" => DOMAIN call.ret.val = {call.arg[k] : k \in DOMAIN call.arg}

\* a table built for an interval whose quotient |end - start|/step is a half
C11_Witness ==
    /\ Built
    /\ call.ret.err = "none"
    /\ 2 * (Abs(interval[2] - interval[1]) % Abs(interval[3])) = Abs(interval[3])

(***************************************************************************)
(* Mutation runs: one chromosome, one rate, calls of mutate.               *)
(***************************************************************************)
BitVecs(n) == [1..n -> {0, 1}]

MutInit ==
    /\ \E n \in 1..MaxLen : \E vec \in BitVecs(n) : opPop = <<Chromosome(1, vec)>>
    /\ opFmap = <<>>
    /\ opRate \in Rates
    /\ GAIdle /\ EncIdle /\ CallIdle

\* opPop[1].mutate(opRate), the per-bit values of random.uniform(0,1) being draws
Mutate ==
    \E draws \in [1..Len(opPop[1].vec) -> Draws] :
        /\ call' = [op |-> "mutate", arg |-> opPop[1], draws |-> draws,
                    ret |-> Chromosome(2, mutate(opPop[1].vec, opRate, draws))]
        /\ UNCHANGED <<opVars, gaVars, encVars>>

MutNext == Mutate

MutSpec == MutInit /\ [][MutNext]_vars

Complement(vec) == [k \in DOMAIN vec |-> 1 - vec[k]]

\* C10: whatever the per-bit draws, mutate(0) returns a chromosome bit-identical to
\* the input and mutate(1) its bitwise complement; the result is a new instance of
\* the same length and the original's bitstring is unchanged.
C10_MutateEndpoints ==
    call.op = "mutate" =>
        /\ opRate = 0 => call.ret.vec = call.arg.vec
        /\ opRate = Scale => call.ret.vec = Complement(call.arg.vec)
        /\ ~ChromEq(call.ret, call.arg)
        /\ Len(call.ret.vec) = Len(call.arg.vec)
        /\ opPop[1] = call.arg

(***************************************************************************)
(* Tournament runs: a population with a fitness map, calls of              *)
(* tournament_selection.                                                   *)
(***************************************************************************)
TourInit ==
    /\ \E n \in 1..MaxLen :
         /\ opPop = [a \in 1..n |-> Chromosome(a, <<>>)]
         /\ opFmap \in [{Chromosome(a, <<>>) : a \in 1..n} -> 0..MaxFit]
    /\ opRate = 0
    /\ key \in {"min", "max"}
    /\ pc = Idle /\ mutrate = 0 /\ crossrate = 0 /\ popsize = 0
    /\ EVAL_LIMIT = 0 /\ EVALS = 0 /\ POP = <<>> /\ FITNESS_MAP = <<>> /\ f_prime = 0
    /\ best = 0 /\ child_POP = <<>> /\ new_children = <<>> /\ i = 0 /\ lines = 0
    /\ parents = <<>>
    /\ EncIdle /\ CallIdle

\* the values random.randint(0, len(popcopy)-1) can return in k rounds
PickSeqs(n, k) == {p \in [1..k -> 0..(n - 1)] : \A j \in 1..k : p[j] <= n - j}

\* tournament_selection(opPop, k, opFmap, key) with a valid size
Tournament ==
    \E k \in 1..Len(opPop) : \E picks \in PickSeqs(Len(opPop), k) :
        /\ call' = [op |-> "tournament", k |-> k, ksubset |-> Sample(opPop, picks),
                    ret |-> tournament_selection(opPop, k, picks, opFmap, key)]
        /\ UNCHANGED <<opVars, gaVars, encVars>>

\* tournament_selection(opPop, k, opFmap, key) with a size its assertion rejects
TournamentBadSize ==
    \E k \in {0, Len(opPop) + 1} :
        /\ call' = [op |-> "tournament", k |-> k, ksubset |-> <<>>,
                    ret |-> tournament_selection(opPop, k, <<>>, opFmap, key)]
        /\ UNCHANGED <<opVars, gaVars, encVars>>

TourNext == Tournament \/ TournamentBadSize

TourSpec == TourInit /\ [][TourNext]_vars

\* a valid tournament has been played
Played == call.op = "tournament" /\ call.ret.err = "none"

\* the positions of the sample whose raw fitness is the best of the sample
BestOfSample ==
    {a \in DOMAIN call.ksubset :
        \A b \in DOMAIN call.ksubset :
            KeyOf(key, opFmap[call.ksubset[a]], opFmap[call.ksubset[b]])
                = opFmap[call.ksubset[a]]}

\* C6 as stated: the result has the best raw fitness of the k sampled individuals
\* and, among several that tie for it, is the one sampled first.
C6_FirstOfTheBest ==
    Played => call.ret.val = call.ksubset[MinOf(BestOfSample)]

\* C6 (amended): the result has the best raw fitness of the k sampled individuals
\* and, among several that tie for it, is the one sampled last.
C6_LastOfTheBest ==
    Played =>
        /\ Len(call.ksubset) = call.k
        /\ call.ret.val = call.ksubset[MaxOf(BestOfSample)]

\* a tournament in which two sampled individuals tie for the best fitness
C6_Witness ==
    /\ Played
    /\ Cardinality(BestOfSample) >= 2
    /\ Cardinality(BestOfSample) < Len(call.ksubset)

====
